---- MODULE Spec2Model ----
(***************************************************************************)
(* photo-merger: PhotoMerger.merge (src/src/photo_merger/photo_merger.py)  *)
(* and ConfigManager.load_config_file (src/src/photo_merger/               *)
(* config_manager.py) as a state machine.                                  *)
(*                                                                         *)
(* A string is a sequence of one-character strings, so that lower(),       *)
(* replace(), rsplit(), Path.suffix, re.search and the {count:03} format   *)
(* are computed character by character.  A path is a sequence of segments  *)
(* (each a string) below the parent directory of the root directory.       *)
(***************************************************************************)
EXTENDS Integers, Sequences, FiniteSets, TLC

VARIABLES
    pc,                    \* position of main()/merge()
    doc,                   \* the parsed YAML document handed to ConfigModel
    config,                \* the ConfigModel held by PhotoMerger (or None)
    fs,                    \* the file system: set of [path, kind, data]
    image_file_paths,      \* result of _obtain_image_file_paths
    image_rename_mapping,  \* result of _generate_new_file_names (ordered dict)
    new_mapping,           \* result of _resolve_duplicate_output_file_paths
    copies,                \* the copy2 calls the copy loop has completed, in order
    log,                   \* the WARNING and ERROR records logged, in order
    steps                  \* the methods merge() has completed, in order

vars == <<pc, doc, config, fs, image_file_paths, image_rename_mapping,
          new_mapping, copies, log, steps>>

----------------------------------------------------------------------------
(* Bounds of the model *)

MaxFiles == 3
MaxNames == 4

----------------------------------------------------------------------------
(* Python values *)

\* Python's None; distinct from every string (strings hold one-character items)
None == <<"<None>">>

\* `not x` for x a str or None
Falsy(x) == x = None \/ x = <<>>

Uppers == <<"A","B","C","D","E","F","G","H","I","J","K","L","M",
            "N","O","P","Q","R","S","T","U","V","W","X","Y","Z">>
Lowers == <<"a","b","c","d","e","f","g","h","i","j","k","l","m",
            "n","o","p","q","r","s","t","u","v","w","x","y","z">>
DigitChars == <<"0","1","2","3","4","5","6","7","8","9">>

LowerChar(c) ==
    IF \E i \in 1..Len(Uppers) : Uppers[i] = c
    THEN Lowers[CHOOSE i \in 1..Len(Uppers) : Uppers[i] = c]
    ELSE c

\* str.lower()
Lower(s) == [i \in 1..Len(s) |-> LowerChar(s[i])]

\* str.replace(old, new) for one-character old and new
Replace(s, old, new) == [i \in 1..Len(s) |-> IF s[i] = old THEN new ELSE s[i]]

\* 1-based index of the last occurrence of c in s, 0 when there is none
RFind(s, c) ==
    IF \E i \in 1..Len(s) : s[i] = c
    THEN CHOOSE i \in 1..Len(s) : s[i] = c /\ \A j \in (i+1)..Len(s) : s[j] # c
    ELSE 0

\* pathlib's PurePath.suffix of a file name: from the last dot, unless that
\* dot is the first or the last character
Suffix(name) ==
    LET i == RFind(name, ".")
    IN  IF 1 < i /\ i < Len(name) THEN SubSeq(name, i, Len(name)) ELSE <<>>

\* "_".join(parts)
RECURSIVE JoinUnderscore(_)
JoinUnderscore(parts) ==
    IF Len(parts) = 0 THEN <<>>
    ELSE IF Len(parts) = 1 THEN parts[1]
    ELSE parts[1] \o <<"_">> \o JoinUnderscore(Tail(parts))

\* str(n) for n >= 0
RECURSIVE Decimal(_)
Decimal(n) ==
    IF n < 10 THEN <<DigitChars[n + 1]>>
    ELSE Decimal(n \div 10) \o <<DigitChars[(n % 10) + 1]>>

\* the format spec {count:03}: zero-padded to at least 3 characters
Pad3(n) ==
    LET d == Decimal(n)
    IN  IF Len(d) >= 3 THEN d
        ELSE [i \in 1..(3 - Len(d)) |-> "0"] \o d

IsDigit(c) == \E i \in 1..Len(DigitChars) : DigitChars[i] = c

\* \d{4}-\d{2}-\d{2}_\d{2}-\d{2}-\d{2}   ("d" stands for \d)
DatetimePattern ==
    <<"d","d","d","d","-","d","d","-","d","d","_",
      "d","d","-","d","d","-","d","d">>

MatchesAt(s, i) ==
    /\ i + Len(DatetimePattern) - 1 <= Len(s)
    /\ \A k \in 1..Len(DatetimePattern) :
          IF DatetimePattern[k] = "d"
          THEN IsDigit(s[i + k - 1])
          ELSE s[i + k - 1] = DatetimePattern[k]

----------------------------------------------------------------------------
(* Paths *)

Name(path) == path[Len(path)]
Parent(path) == SubSeq(path, 1, Len(path) - 1)

IsPrefix(p, q) == Len(p) <= Len(q) /\ SubSeq(q, 1, Len(p)) = p

----------------------------------------------------------------------------
(* String literals of the modelled runs *)

RootName == <<"r","o","o","t">>
S_VacationA == <<"V","a","c","a","t","i","o","n","A">>
S_Beach == <<"B","e","a","c","h">>
S_a == <<"a">>
S_A_001 == <<"A"," ","0","0","1">>
S_img1_jpg == <<"i","m","g","1",".","j","p","g">>
S_x_jpg == <<"x",".","j","p","g">>
S_y_JPG == <<"y",".","J","P","G">>
S_w_jpg == <<"w",".","j","p","g">>
S_z_jpg == <<"z",".","j","p","g">>
S_d_jpg == <<"d",".","j","p","g">>
S_n_jpg == <<"n",".","j","p","g">>
S_notes_txt == <<"n","o","t","e","s",".","t","x","t">>
S_IMG_2021 ==
    <<"I","M","G","_","2","0","2","1","-","0","7","-","0","4","_",
      "1","2","-","3","0","-","0","0","_","x",".","j","p","g">>
S_2020_05 ==
    <<"2","0","2","0","-","0","5","-","0","5","_",
      "0","5","-","0","5","-","0","5",".","j","p","g">>
S_old_jpg == <<"_","a",".","j","p","g">>
Exif_2020_01_01 ==
    <<"2","0","2","0",":","0","1",":","0","1"," ","0","0",":","0","0",":","0","0">>
Exif_2024_01_02 ==
    <<"2","0","2","4",":","0","1",":","0","2"," ","0","3",":","0","4",":","0","5">>
Ext_jpg == <<".","j","p","g">>
Ext_png == <<".","p","n","g">>
Suffix_merged == <<"_","m","e","r","g","e","d">>

----------------------------------------------------------------------------
(* Configuration: ConfigModel and ConfigManager.load_config_file *)

\* the fields ConfigModel declares, with the type each must have
ConfigModelFields ==
    [allowed_image_extensions |-> "list", output_directory_name_suffix |-> "str"]

\* the keys a YAML document of the model may hold
YamlKeys ==
    {"allowed_image_extensions", "allowed_file_extensions",
     "output_directory_name_suffix", "verbose"}

\* the values yaml.safe_load may give a key: a string, a list of strings, an int
YamlValues ==
    {[type |-> "str", val |-> Suffix_merged],
     [type |-> "str", val |-> <<>>],
     [type |-> "list", val |-> <<Ext_jpg, Ext_png>>],
     [type |-> "int", val |-> <<"7">>]}

\* what yaml.safe_load returns: a mapping, or None for an empty file
YamlDocuments ==
    {[kind |-> "none"]}
    \cup {[kind |-> "mapping", map |-> m] :
             m \in UNION {[keys -> YamlValues] : keys \in SUBSET YamlKeys}}

\* whether a value of ConfigModel(...) is an exception rather than a model
Raised(model) == "error" \in DOMAIN model

\* ConfigModel(**config): a TypeError when config is no mapping; extra="forbid",
\* both fields required and of their declared types, else a ValidationError
ConfigModel(config_doc) ==
    IF config_doc.kind # "mapping" THEN [error |-> "TypeError"]
    ELSE IF \/ \E k \in DOMAIN config_doc.map : k \notin DOMAIN ConfigModelFields
            \/ \E f \in DOMAIN ConfigModelFields : f \notin DOMAIN config_doc.map
         THEN [error |-> "ValidationError"]
    ELSE IF \E f \in DOMAIN ConfigModelFields :
               config_doc.map[f].type # ConfigModelFields[f]
         THEN [error |-> "ValidationError"]
    ELSE [f \in DOMAIN ConfigModelFields |-> config_doc.map[f].val]

\* load_config_file: pc "load" -> "loaded" with the model; an exception of
\* ConfigModel propagates out of main() ("config_error")
load_config_file ==
    /\ pc = "load"
    /\ config' = ConfigModel(doc)
    /\ pc' = IF Raised(ConfigModel(doc)) THEN "config_error" ELSE "loaded"
    /\ UNCHANGED <<doc, fs, image_file_paths, image_rename_mapping,
                   new_mapping, copies, log, steps>>

----------------------------------------------------------------------------
(* The file system *)

\* EXIF of a file as PIL sees it: Image.open(...).getexif() either raises
\* (readable = FALSE) or gives tags, a mapping from tag names to values
NoExif == [readable |-> FALSE, tags |-> <<>>]
EmptyExif == [readable |-> TRUE, tags |-> <<>>]

\* the files and directories a source tree of the model is drawn from:
\* rel is the parent directory relative to the root directory
Universe ==
    << [rel |-> <<S_VacationA, S_Beach>>, name |-> S_img1_jpg, kind |-> "file",
        exif |-> [readable |-> TRUE,
                  tags |-> ("DateTimeOriginal" :> Exif_2020_01_01)
                           @@ ("DateTime" :> Exif_2024_01_02)]],
       [rel |-> <<S_a>>, name |-> S_x_jpg, kind |-> "file", exif |-> EmptyExif],
       [rel |-> <<S_a>>, name |-> S_y_JPG, kind |-> "file", exif |-> NoExif],
       [rel |-> <<S_a>>, name |-> S_w_jpg, kind |-> "file",
        exif |-> [readable |-> TRUE, tags |-> ("Make" :> <<"c">>)]],
       [rel |-> <<S_A_001>>, name |-> S_z_jpg, kind |-> "file", exif |-> EmptyExif],
       [rel |-> <<>>, name |-> S_IMG_2021, kind |-> "file", exif |-> NoExif],
       [rel |-> <<>>, name |-> S_2020_05, kind |-> "file",
        exif |-> [readable |-> TRUE,
                  tags |-> ("DateTimeOriginal" :> <<>>)
                           @@ ("DateTime" :> Exif_2024_01_02)]],
       [rel |-> <<>>, name |-> S_notes_txt, kind |-> "file", exif |-> NoExif],
       [rel |-> <<S_a>>, name |-> S_d_jpg, kind |-> "dir", exif |-> NoExif],
       [rel |-> <<>>, name |-> S_n_jpg, kind |-> "file", exif |-> EmptyExif] >>

\* PhotoMerger.root_directory and PhotoMerger.output_directory_path
root_directory == <<RootName>>
output_directory_path(cfg) == <<RootName \o cfg.output_directory_name_suffix>>

\* the file-system entry of universe item u; data names the content
SourceEntry(u) ==
    [path |-> root_directory \o Universe[u].rel \o <<Universe[u].name>>,
     kind |-> Universe[u].kind, data |-> u]

\* Path.is_dir(): an entry of kind "dir", or an ancestor of some entry
IsDirPath(F, p) ==
    \/ \E e \in F : e.path = p /\ e.kind = "dir"
    \/ \E e \in F : IsPrefix(p, Parent(e.path))

\* Path.is_file()
IsFilePath(F, p) == \E e \in F : e.path = p /\ e.kind = "file"

\* the content of the file at p
DataAt(F, p) == (CHOOSE e \in F : e.path = p /\ e.kind = "file").data

\* Path.rglob("*"): every path strictly beneath directory d, files and
\* directories alike
RGlob(F, d) ==
    UNION {{SubSeq(e.path, 1, k) : k \in (Len(d) + 1)..Len(e.path)} :
              e \in {x \in F : IsPrefix(d, x.path)}}

\* Path.iterdir(): the paths directly in directory d
IterDir(F, d) == {p \in RGlob(F, d) : Len(p) = Len(d) + 1}

\* the membership test without .lower()
HasAllowedSuffix_CaseSensitive(cfg, p) ==
    \E k \in 1..Len(cfg.allowed_image_extensions) :
        cfg.allowed_image_extensions[k] = Suffix(Name(p))

\* path.suffix.lower() in self.allowed_image_extensions
HasAllowedSuffix(cfg, p) ==
    \E k \in 1..Len(cfg.allowed_image_extensions) :
        cfg.allowed_image_extensions[k] = Lower(Suffix(Name(p)))

\* the orders in which rglob may yield the set S of paths: the entries of
\* one directory come together, in the order os.scandir gives them
RGlobOrders(S) ==
    {sq \in [1..Cardinality(S) -> S] :
        /\ \A i, j \in 1..Cardinality(S) : i # j => sq[i] # sq[j]
        /\ \A i, j, k \in 1..Cardinality(S) :
              (i < j /\ j < k /\ Parent(sq[i]) = Parent(sq[k]))
                  => Parent(sq[j]) = Parent(sq[i])}

----------------------------------------------------------------------------
(* Python dicts, in insertion order: sequences of [key, val] *)

DictHas(d, k) == \E i \in 1..Len(d) : d[i].key = k

\* d.get(k, default)
DictGet(d, k, default) ==
    IF DictHas(d, k) THEN d[CHOOSE i \in 1..Len(d) : d[i].key = k].val
    ELSE default

\* d[k] = v: a present key keeps its position, a new key goes last
DictSet(d, k, v) ==
    IF DictHas(d, k)
    THEN [i \in 1..Len(d) |-> IF d[i].key = k THEN [key |-> k, val |-> v] ELSE d[i]]
    ELSE Append(d, [key |-> k, val |-> v])

----------------------------------------------------------------------------
(* Timestamp extraction *)

\* what Image.open(image_path).getexif() gives: a directory or a file that
\* is no image raises
ExifAt(F, p) ==
    IF IsFilePath(F, p) /\ DataAt(F, p) \in 1..Len(Universe)
    THEN Universe[DataAt(F, p)].exif
    ELSE NoExif

\* readable_tags.get(tag)
TagGet(tags, tag) == IF tag \in DOMAIN tags THEN tags[tag] ELSE None

\* Python's `a or b` on str or None
PyOr(a, b) == IF Falsy(a) THEN b ELSE a

\* whether _extract_metadata takes its except branch
ExtractMetadataRaises(F, p) == ~ExifAt(F, p).readable

\* _extract_metadata with the two tags tried in the opposite order
extract_metadata_DateTimeFirst(F, p) ==
    LET exif_data == ExifAt(F, p)
        datetime_str == PyOr(TagGet(exif_data.tags, "DateTime"),
                             TagGet(exif_data.tags, "DateTimeOriginal"))
    IN  IF ~exif_data.readable THEN None
        ELSE IF DOMAIN exif_data.tags = {} THEN None
        ELSE IF Falsy(datetime_str) THEN None
        ELSE Replace(Replace(datetime_str, ":", "_"), " ", "_")

\* _extract_metadata: the formatted EXIF datetime, or None
extract_metadata(F, p) ==
    LET exif_data == ExifAt(F, p)
        datetime_str == PyOr(TagGet(exif_data.tags, "DateTimeOriginal"),
                             TagGet(exif_data.tags, "DateTime"))
    IN  IF ~exif_data.readable THEN None
        ELSE IF DOMAIN exif_data.tags = {} THEN None
        ELSE IF Falsy(datetime_str) THEN None
        ELSE Replace(Replace(datetime_str, ":", "_"), " ", "_")

\* _extract_datetime_from_file_name: re.search takes the leftmost match
extract_datetime_from_file_name(p) ==
    LET name == Name(p)
    IN  IF \E i \in 1..Len(name) : MatchesAt(name, i)
        THEN LET first == CHOOSE i \in 1..Len(name) :
                              /\ MatchesAt(name, i)
                              /\ \A j \in 1..(i - 1) : ~MatchesAt(name, j)
             IN  Replace(SubSeq(name, first, first + Len(DatetimePattern) - 1),
                         "-", "_")
        ELSE None

\* the datetime_str of one pass of the loop of _generate_new_file_names
DatetimeStr(F, p) ==
    LET from_metadata == extract_metadata(F, p)
        from_name == IF Falsy(from_metadata)
                     THEN extract_datetime_from_file_name(p)
                     ELSE from_metadata
    IN  IF Falsy(from_name) THEN <<>> ELSE from_name

\* the records of one pass when the except branch logs nothing
GenerateLogOf_SilentExcept(F, p) ==
    IF Falsy(extract_metadata(F, p)) /\ Falsy(extract_datetime_from_file_name(p))
    THEN <<[level |-> "WARNING", event |-> "no_datetime", path |-> p]>>
    ELSE <<>>

\* the records one pass of the loop logs
GenerateLogOf(F, p) ==
    (IF ExtractMetadataRaises(F, p)
     THEN <<[level |-> "ERROR", event |-> "exif_failed", path |-> p]>>
     ELSE <<>>)
    \o (IF Falsy(extract_metadata(F, p)) /\ Falsy(extract_datetime_from_file_name(p))
        THEN <<[level |-> "WARNING", event |-> "no_datetime", path |-> p]>>
        ELSE <<>>)

----------------------------------------------------------------------------
(* Name synthesis *)

\* "_".join(part.lower().replace(" ", "_") for part in relative_path.parts)
SubdirsFormatted(p) ==
    LET relative_path == SubSeq(Parent(p), Len(root_directory) + 1, Len(Parent(p)))
    IN  JoinUnderscore([k \in 1..Len(relative_path) |->
                            Replace(Lower(relative_path[k]), " ", "_")])

\* new_file_name with the directory names not lowercased
NewFileName_TagNotLowered(p, datetime_str) ==
    LET relative_path == SubSeq(Parent(p), Len(root_directory) + 1, Len(Parent(p)))
        subdirs_formatted ==
            JoinUnderscore([k \in 1..Len(relative_path) |->
                               Replace(relative_path[k], " ", "_")])
        ext == Lower(Suffix(Name(p)))
    IN  IF subdirs_formatted # <<>>
        THEN datetime_str \o <<"_">> \o subdirs_formatted \o ext
        ELSE datetime_str \o ext

\* new_file_name of one pass of the loop
NewFileName(p, datetime_str) ==
    LET subdirs_formatted == SubdirsFormatted(p)
        ext == Lower(Suffix(Name(p)))
    IN  IF subdirs_formatted # <<>>
        THEN datetime_str \o <<"_">> \o subdirs_formatted \o ext
        ELSE datetime_str \o ext

\* _generate_new_file_names: the mapping after the passes for paths[i..]
RECURSIVE GenerateFrom(_, _, _, _)
GenerateFrom(F, paths, i, mapping) ==
    IF i > Len(paths) THEN mapping
    ELSE GenerateFrom(F, paths, i + 1,
             DictSet(mapping, paths[i], NewFileName(paths[i], DatetimeStr(F, paths[i]))))

generate_new_file_names(F, paths) == GenerateFrom(F, paths, 1, <<>>)

RECURSIVE GenerateLogs(_, _)
GenerateLogs(F, paths) ==
    IF Len(paths) = 0 THEN <<>>
    ELSE GenerateLogOf(F, paths[1]) \o GenerateLogs(F, Tail(paths))

----------------------------------------------------------------------------
(* Collision resolution *)

\* the suffix formatted as {count} instead of {count:03}
Suffixed_Unpadded(new_file_name, count) ==
    LET dot == RFind(new_file_name, ".")
    IN  SubSeq(new_file_name, 1, dot - 1) \o <<"_">> \o Decimal(count) \o <<".">>
        \o SubSeq(new_file_name, dot + 1, Len(new_file_name))

\* name, ext = new_file_name.rsplit(".", 1); f"{name}_{count:03}.{ext}"
Suffixed(new_file_name, count) ==
    LET dot == RFind(new_file_name, ".")
    IN  SubSeq(new_file_name, 1, dot - 1) \o <<"_">> \o Pad3(count) \o <<".">>
        \o SubSeq(new_file_name, dot + 1, Len(new_file_name))

\* the loop of _resolve_duplicate_output_file_paths from entry i on; a
\* repeated name without a dot makes the unpacking of rsplit raise
RECURSIVE ResolveFrom(_, _, _, _)
ResolveFrom(mapping, i, result, file_name_counts) ==
    IF i > Len(mapping) THEN [raised |-> FALSE, mapping |-> result]
    ELSE LET new_file_name == mapping[i].val
             count == DictGet(file_name_counts, new_file_name, 0)
         IN  IF count > 0 /\ RFind(new_file_name, ".") = 0
             THEN [raised |-> TRUE, mapping |-> result]
             ELSE ResolveFrom(mapping, i + 1,
                      DictSet(result, mapping[i].key,
                              IF count > 0 THEN Suffixed(new_file_name, count)
                              ELSE new_file_name),
                      DictSet(file_name_counts, DictGet(mapping, mapping[i].key, None),
                              count + 1))

resolve_duplicate_output_file_paths(mapping) == ResolveFrom(mapping, 1, <<>>, <<>>)

----------------------------------------------------------------------------
(* Copying and verification *)

\* shutil.copy2(src, dst): a dst that is a directory takes the file under
\* the source's own name
CopyTarget(F, src, dst) == IF IsDirPath(F, dst) THEN dst \o <<Name(src)>> ELSE dst

\* copy2 raises IsADirectoryError/FileNotFoundError for a src that is no
\* file, SameFileError for src = dst, IsADirectoryError for a directory dst
CopyRaises(F, src, dst) ==
    \/ ~IsFilePath(F, src)
    \/ src = CopyTarget(F, src, dst)
    \/ IsDirPath(F, CopyTarget(F, src, dst))

\* the file system after a successful copy2(src, dst): dst is overwritten
AfterCopy(F, src, dst) ==
    {e \in F : e.path # CopyTarget(F, src, dst)}
    \cup {[path |-> CopyTarget(F, src, dst), kind |-> "file", data |-> DataAt(F, src)]}

\* the sum over the set S of directories of their counts
RECURSIVE SumCounts(_, _, _)
SumCounts(F, cfg, S) ==
    IF S = {} THEN 0
    ELSE LET subdir == CHOOSE d \in S : TRUE
             count == Cardinality({p \in IterDir(F, subdir) : HasAllowedSuffix(cfg, p)})
         IN  count + SumCounts(F, cfg, S \ {subdir})

\* total_original of _verify_merge: every entry with an allowed suffix in a
\* directory beneath the root, plus the files with one directly in the root
TotalOriginal(F, cfg) ==
    SumCounts(F, cfg, {d \in RGlob(F, root_directory) : IsDirPath(F, d)})
    + Cardinality({p \in IterDir(F, root_directory) :
                      IsFilePath(F, p) /\ HasAllowedSuffix(cfg, p)})

\* total_merged without the suffix test
TotalMerged_AnyFile(F, cfg) ==
    Cardinality({p \in IterDir(F, output_directory_path(cfg)) : IsFilePath(F, p)})

\* total_merged of _verify_merge
TotalMerged(F, cfg) ==
    Cardinality({p \in IterDir(F, output_directory_path(cfg)) :
                    IsFilePath(F, p) /\ HasAllowedSuffix(cfg, p)})

----------------------------------------------------------------------------
(* The steps of PhotoMerger.merge *)

\* _obtain_image_file_paths
obtain_image_file_paths ==
    /\ pc = "start"
    /\ image_file_paths' \in
           RGlobOrders({p \in RGlob(fs, root_directory) : HasAllowedSuffix(config, p)})
    /\ pc' = "obtained"
    /\ steps' = Append(steps, "obtain_image_file_paths")
    /\ UNCHANGED <<doc, config, fs, image_rename_mapping, new_mapping, copies, log>>

\* _generate_new_file_names
generate_new_file_names_step ==
    /\ pc = "obtained"
    /\ image_rename_mapping' = generate_new_file_names(fs, image_file_paths)
    /\ log' = log \o GenerateLogs(fs, image_file_paths)
    /\ pc' = "generated"
    /\ steps' = Append(steps, "generate_new_file_names")
    /\ UNCHANGED <<doc, config, fs, image_file_paths, new_mapping, copies>>

\* _resolve_duplicate_output_file_paths; a ValueError aborts the run
resolve_duplicate_output_file_paths_step ==
    /\ pc = "generated"
    /\ LET r == resolve_duplicate_output_file_paths(image_rename_mapping)
       IN  /\ new_mapping' = IF r.raised THEN new_mapping ELSE r.mapping
           /\ pc' = IF r.raised THEN "aborted" ELSE "resolved"
           /\ steps' = IF r.raised THEN steps
                       ELSE Append(steps, "resolve_duplicate_output_file_paths")
    /\ UNCHANGED <<doc, config, fs, image_file_paths, image_rename_mapping, copies, log>>

\* _copy_and_rename_images, its first statement: mkdir(exist_ok=True)
copy_mkdir ==
    /\ pc = "resolved"
    /\ fs' = IF IsDirPath(fs, output_directory_path(config)) THEN fs
             ELSE fs \cup {[path |-> output_directory_path(config),
                            kind |-> "dir", data |-> 0]}
    /\ copies' = <<>>
    /\ pc' = IF Len(new_mapping) = 0 THEN "copied" ELSE "copying"
    /\ steps' = IF Len(new_mapping) = 0
                THEN Append(steps, "copy_and_rename_images") ELSE steps
    /\ UNCHANGED <<doc, config, image_file_paths, image_rename_mapping, new_mapping, log>>

\* _copy_and_rename_images, one pass of its loop; an exception of copy2
\* aborts the run with the earlier copies in place
copy_one ==
    /\ pc = "copying"
    /\ Len(copies) < Len(new_mapping)
    /\ LET original_path == new_mapping[Len(copies) + 1].key
           new_path == output_directory_path(config)
                       \o <<new_mapping[Len(copies) + 1].val>>
       IN  IF CopyRaises(fs, original_path, new_path)
           THEN /\ pc' = "aborted"
                /\ UNCHANGED <<fs, copies, steps>>
           ELSE /\ fs' = AfterCopy(fs, original_path, new_path)
                /\ copies' = Append(copies,
                       [src |-> original_path,
                        dst |-> CopyTarget(fs, original_path, new_path),
                        existed |-> IsFilePath(fs, CopyTarget(fs, original_path, new_path))])
                /\ pc' = IF Len(copies) + 1 = Len(new_mapping) THEN "copied" ELSE "copying"
                /\ steps' = IF Len(copies) + 1 = Len(new_mapping)
                            THEN Append(steps, "copy_and_rename_images") ELSE steps
    /\ UNCHANGED <<doc, config, image_file_paths, image_rename_mapping, new_mapping, log>>

\* an I/O error of copy2 (disk full, permission denied) aborts the run
copy_io_error ==
    /\ pc = "copying"
    /\ Len(copies) < Len(new_mapping)
    /\ pc' = "aborted"
    /\ UNCHANGED <<doc, config, fs, image_file_paths, image_rename_mapping,
                   new_mapping, copies, log, steps>>

\* _verify_merge: the assert ends the run when the totals differ
verify_merge ==
    /\ pc = "copied"
    /\ IF TotalOriginal(fs, config) = TotalMerged(fs, config)
       THEN /\ pc' = "done"
            /\ steps' = Append(steps, "verify_merge")
       ELSE /\ pc' = "assertion_failed"
            /\ UNCHANGED steps
    /\ UNCHANGED <<doc, config, fs, image_file_paths, image_rename_mapping,
                   new_mapping, copies, log>>

----------------------------------------------------------------------------
(* Specification of a merge run: main() from PhotoMerger(...).merge() on *)

\* the documents load_config_file accepts
AcceptedDocuments == {d \in YamlDocuments : ~Raised(ConfigModel(d))}

\* what the output directory may hold before the run
PreExistingOutputs(cfg) ==
    IF output_directory_path(cfg) = root_directory THEN {{}}
    ELSE {{},
          {[path |-> output_directory_path(cfg), kind |-> "dir", data |-> 0]},
          {[path |-> output_directory_path(cfg) \o <<S_old_jpg>>,
            kind |-> "file", data |-> 0]}}

Init ==
    /\ pc = "start"
    /\ doc \in AcceptedDocuments
    /\ config = ConfigModel(doc)
    /\ \E chosen \in SUBSET (1..Len(Universe)) :
          /\ Cardinality(chosen) <= MaxFiles
          /\ \E pre \in PreExistingOutputs(config) :
                fs = {[path |-> root_directory, kind |-> "dir", data |-> 0]}
                     \cup {SourceEntry(u) : u \in chosen} \cup pre
    /\ image_file_paths = <<>>
    /\ image_rename_mapping = <<>>
    /\ new_mapping = <<>>
    /\ copies = <<>>
    /\ log = <<>>
    /\ steps = <<>>

Next ==
    \/ obtain_image_file_paths
    \/ generate_new_file_names_step
    \/ resolve_duplicate_output_file_paths_step
    \/ copy_mkdir
    \/ copy_one
    \/ copy_io_error
    \/ verify_merge

Spec == Init /\ [][Next]_vars

----------------------------------------------------------------------------
(* Specification of configuration loading alone: main() up to the model *)

InitConfig ==
    /\ pc = "load"
    /\ doc \in YamlDocuments
    /\ config = [error |-> "unset"]
    /\ fs = {}
    /\ image_file_paths = <<>>
    /\ image_rename_mapping = <<>>
    /\ new_mapping = <<>>
    /\ copies = <<>>
    /\ log = <<>>
    /\ steps = <<>>

NextConfig == load_config_file

SpecConfig == InitConfig /\ [][NextConfig]_vars

----------------------------------------------------------------------------
(* Specification of collision resolution alone: the function applied to   *)
(* every ordered mapping of at most MaxNames entries over ProposedNames    *)

N_a_jpg == <<"a",".","j","p","g">>
N_b_jpg == <<"b",".","j","p","g">>
N_a_001_jpg == <<"a","_","0","0","1",".","j","p","g">>
N_a == <<"a">>

ProposedNames == {N_a_jpg, N_b_jpg, N_a_001_jpg, N_a}

\* the i-th source path of such a mapping
KeyPath(i) == root_directory \o <<<<"f", DigitChars[i + 1], ".", "j", "p", "g">>>>

InitResolve ==
    /\ pc = "generated"
    /\ doc = [kind |-> "mapping",
              map |-> [k \in DOMAIN ConfigModelFields |->
                          IF ConfigModelFields[k] = "list"
                          THEN [type |-> "list", val |-> <<Ext_jpg, Ext_png>>]
                          ELSE [type |-> "str", val |-> Suffix_merged]]]
    /\ config = ConfigModel(doc)
    /\ fs = {}
    /\ image_file_paths = <<>>
    /\ \E n \in 0..MaxNames :
          \E names \in [1..n -> ProposedNames] :
              image_rename_mapping =
                  [i \in 1..n |-> [key |-> KeyPath(i), val |-> names[i]]]
    /\ new_mapping = <<>>
    /\ copies = <<>>
    /\ log = <<>>
    /\ steps = <<>>

NextResolve == resolve_duplicate_output_file_paths_step

SpecResolve == InitResolve /\ [][NextResolve]_vars

----------------------------------------------------------------------------
(* Properties *)

\* whether merge() has completed the named method
HasRun(step) == \E i \in 1..Len(steps) : steps[i] = step

\* the names of an ordered mapping, in order
Vals(mapping) == [i \in 1..Len(mapping) |-> mapping[i].val]

\* "the lowercased suffix is in the allowed-extension set", as the claims say it
ClaimAllowed(p) ==
    LET name == p[Len(p)]
        dot == RFind(name, ".")
        suffix == IF dot > 1 /\ dot < Len(name) THEN SubSeq(name, dot, Len(name)) ELSE <<>>
    IN  \E k \in 1..Len(config.allowed_image_extensions) :
            config.allowed_image_extensions[k] = Lower(suffix)

\* C1: once collision resolution has run on a mapping whose proposed names
\* each contain a '.', the resolved mapping has as many entries as the input
\* mapping and its resolved names are pairwise distinct.
C1_ResolvedNamesDistinct ==
    (/\ HasRun("resolve_duplicate_output_file_paths")
     /\ \A i \in 1..Len(image_rename_mapping) :
           RFind(image_rename_mapping[i].val, ".") # 0)
    => /\ Len(new_mapping) = Len(image_rename_mapping)
       /\ \A i, j \in 1..Len(new_mapping) :
             i # j => new_mapping[i].val # new_mapping[j].val

\* C2: in every run that ends without a fatal error, the number of files
\* beneath the root with an allowed suffix equals the number of files
\* directly in the output directory with an allowed suffix.
SourceFileCount ==
    Cardinality({e \in fs : /\ e.kind = "file"
                            /\ IsPrefix(root_directory, Parent(e.path))
                            /\ ClaimAllowed(e.path)})

OutputFileCount ==
    Cardinality({e \in fs : /\ e.kind = "file"
                            /\ Parent(e.path) = output_directory_path(config)
                            /\ ClaimAllowed(e.path)})

C2_VerificationInvariant == pc = "done" => SourceFileCount = OutputFileCount

C2_Witness == pc = "done" /\ SourceFileCount >= 2 /\ Len(copies) >= 2

\* C3: the resolved mapping keeps the keys in order; an entry with no
\* earlier entry of the same proposed name keeps its name, and one with N >= 1
\* earlier entries of it gets stem_NNN.ext, NNN being N zero-padded to three
\* digits and stem and ext the parts around the last dot; a.jpg, a.jpg,
\* b.jpg, a.jpg resolve to a.jpg, a_001.jpg, b.jpg, a_002.jpg.
C3_CollisionStability ==
    HasRun("resolve_duplicate_output_file_paths")
    => /\ Len(new_mapping) = Len(image_rename_mapping)
       /\ \A i \in 1..Len(new_mapping) :
             LET name == image_rename_mapping[i].val
                 N == Cardinality({j \in 1..(i - 1) : image_rename_mapping[j].val = name})
                 dot == RFind(name, ".")
             IN  /\ new_mapping[i].key = image_rename_mapping[i].key
                 /\ new_mapping[i].val =
                       IF N = 0 THEN name
                       ELSE SubSeq(name, 1, dot - 1) \o <<"_">> \o Pad3(N) \o <<".">>
                            \o SubSeq(name, dot + 1, Len(name))
       /\ (Vals(image_rename_mapping) = <<N_a_jpg, N_a_jpg, N_b_jpg, N_a_jpg>>
           => Vals(new_mapping) =
                  <<N_a_jpg, N_a_001_jpg, N_b_jpg, <<"a","_","0","0","2",".","j","p","g">>>>)

C3_Witness ==
    /\ HasRun("resolve_duplicate_output_file_paths")
    /\ Vals(image_rename_mapping) = <<N_a_jpg, N_a_jpg, N_b_jpg, N_a_jpg>>
    /\ new_mapping[4].key = KeyPath(4)

\* C4: a run that does not abort has performed, once each and in this
\* order: discovery, the size-statistics report, mapping construction,
\* collision resolution, copying, verification.
C4_StepOrder ==
    pc = "done"
    => steps = <<"obtain_image_file_paths", "print_aggregated_sizes_table",
                 "generate_new_file_names", "resolve_duplicate_output_file_paths",
                 "copy_and_rename_images", "verify_merge">>

\* C9: load_config_file returns a model for a document whose keys are exactly
\* output_directory_name_suffix (a string) and allowed_file_extensions (a
\* list of strings), and rejects every document holding a key that is
\* neither one of these nor a field of ConfigModel.
C9_ConfigurationLoading ==
    (pc # "load" /\ doc.kind = "mapping")
    => /\ (/\ DOMAIN doc.map = {"output_directory_name_suffix", "allowed_file_extensions"}
           /\ doc.map["output_directory_name_suffix"].type = "str"
           /\ doc.map["allowed_file_extensions"].type = "list")
          => (pc = "loaded" /\ ~Raised(config))
       /\ (\E k \in DOMAIN doc.map :
              k \notin {"output_directory_name_suffix", "allowed_file_extensions"}
                       \cup DOMAIN ConfigModelFields)
          => pc = "config_error"

\* the paths of the modelled tree the properties name
P_img1 == root_directory \o <<S_VacationA, S_Beach, S_img1_jpg>>
P_y_JPG == root_directory \o <<S_a, S_y_JPG>>
P_z_jpg == root_directory \o <<S_A_001, S_z_jpg>>
P_IMG_2021 == root_directory \o <<S_IMG_2021>>
P_2020_05 == root_directory \o <<S_2020_05>>
P_notes_txt == root_directory \o <<S_notes_txt>>

L_2024_01_02_jpg ==
    <<"2","0","2","4","_","0","1","_","0","2","_","0","3","_","0","4","_","0","5",
      ".","j","p","g">>
L_2021_07_04_jpg ==
    <<"2","0","2","1","_","0","7","_","0","4","_","1","2","_","3","0","_","0","0",
      ".","j","p","g">>
L_2020_01_01_vacationa_beach_jpg ==
    <<"2","0","2","0","_","0","1","_","0","1","_","0","0","_","0","0","_","0","0",
      "_","v","a","c","a","t","i","o","n","a","_","b","e","a","c","h",".","j","p","g">>

\* the mapping and the tree are those of discovery: no copy has been made
BeforeCopy == pc \in {"generated", "resolved"}

\* C5: a path whose lowercased suffix is not allowed is never in the
\* discovered list, never a key of the rename mapping and never the source
\* of a copy, and no file of the output directory holds its content; every
\* file beneath the root, at any depth, with an allowed suffix is discovered.
C5_ExtensionFiltering ==
    /\ \A i \in 1..Len(image_file_paths) : ClaimAllowed(image_file_paths[i])
    /\ \A i \in 1..Len(image_rename_mapping) : ClaimAllowed(image_rename_mapping[i].key)
    /\ \A i \in 1..Len(new_mapping) : ClaimAllowed(new_mapping[i].key)
    /\ \A i \in 1..Len(copies) : ClaimAllowed(copies[i].src)
    /\ output_directory_path(config) # root_directory
       => \A e \in fs :
             (Parent(e.path) = output_directory_path(config) /\ e.data # 0)
             => ClaimAllowed(SourceEntry(e.data).path)
    /\ pc \in {"obtained", "generated", "resolved"}
       => \A e \in fs :
             (/\ e.kind = "file"
              /\ IsPrefix(root_directory, Parent(e.path))
              /\ ClaimAllowed(e.path))
             => \E i \in 1..Len(image_file_paths) : image_file_paths[i] = e.path

C5_Witness ==
    /\ pc = "done"
    /\ IsFilePath(fs, P_notes_txt)
    /\ \E i \in 1..Len(copies) : copies[i].src = P_img1
    /\ \E i \in 1..Len(copies) : copies[i].src = P_y_JPG

\* C6: the timestamp in a file's proposed name is the formatted
\* DateTimeOriginal tag if present and non-empty, else the formatted DateTime
\* tag if present and non-empty, else the first match of the date-time
\* pattern in the file name, else the empty string; 2020-05-05_05-05-05.jpg
\* with DateTime 2024:01:02 03:04:05 is named 2024_01_02_03_04_05.jpg.
ClaimTimestamp(p) ==
    LET exif == ExifAt(fs, p)
        Present(tag) == exif.readable /\ tag \in DOMAIN exif.tags /\ exif.tags[tag] # <<>>
        Format(x) == Replace(Replace(x, ":", "_"), " ", "_")
    IN  IF Present("DateTimeOriginal") THEN Format(exif.tags["DateTimeOriginal"])
        ELSE IF Present("DateTime") THEN Format(exif.tags["DateTime"])
        ELSE IF extract_datetime_from_file_name(p) # None
             THEN extract_datetime_from_file_name(p)
        ELSE <<>>

C6_TimestampPrecedence ==
    BeforeCopy
    => /\ \A i \in 1..Len(image_rename_mapping) :
             image_rename_mapping[i].val =
                 NewFileName(image_rename_mapping[i].key,
                             ClaimTimestamp(image_rename_mapping[i].key))
       /\ DictHas(image_rename_mapping, P_2020_05)
          => DictGet(image_rename_mapping, P_2020_05, None) = L_2024_01_02_jpg
       /\ DictHas(image_rename_mapping, P_IMG_2021)
          => DictGet(image_rename_mapping, P_IMG_2021, None) = L_2021_07_04_jpg

C6_Witness ==
    /\ BeforeCopy
    /\ DictHas(image_rename_mapping, P_2020_05)
    /\ DictHas(image_rename_mapping, P_IMG_2021)
    /\ DictHas(image_rename_mapping, P_img1)

\* C7: a file's proposed name is timestamp, then "_" and the tag when the
\* tag is non-empty, then the lowercased extension; the tag is the segments
\* of the parent directory below the root, lowercased, spaces turned into
\* underscores, joined by "_"; root/VacationA/Beach/img1.jpg with timestamp
\* 2020_01_01_00_00_00 is named 2020_01_01_00_00_00_vacationa_beach.jpg.
RECURSIVE ClaimTag(_, _)
ClaimTag(p, k) ==
    IF k >= Len(p) THEN <<>>
    ELSE LET segment == [i \in 1..Len(p[k]) |->
                            IF p[k][i] = " " THEN "_" ELSE LowerChar(p[k][i])]
         IN  IF k = Len(p) - 1 THEN segment
             ELSE segment \o <<"_">> \o ClaimTag(p, k + 1)

C7_NameSynthesis ==
    BeforeCopy
    => /\ \A i \in 1..Len(image_rename_mapping) :
             LET p == image_rename_mapping[i].key
                 timestamp == DatetimeStr(fs, p)
                 tag == ClaimTag(p, Len(root_directory) + 1)
                 name == p[Len(p)]
                 extension == Lower(SubSeq(name, RFind(name, "."), Len(name)))
             IN  image_rename_mapping[i].val =
                     IF tag # <<>> THEN timestamp \o <<"_">> \o tag \o extension
                     ELSE timestamp \o extension
       /\ DictHas(image_rename_mapping, P_img1)
          => DictGet(image_rename_mapping, P_img1, None) = L_2020_01_01_vacationa_beach_jpg

C7_Witness ==
    /\ BeforeCopy
    /\ DictHas(image_rename_mapping, P_img1)
    /\ DictHas(image_rename_mapping, P_z_jpg)
    /\ DictHas(image_rename_mapping, P_IMG_2021)

\* C8 (with the level the claim names, and with the level the code uses): a
\* file whose metadata cannot be read gets a record of that level for the
\* failure and a proposed name built from the file-name pattern or the
\* empty string; the run aborts no earlier than collision resolution; every
\* path with such a record is a key of the mapping and, once the copy step
\* has completed, the source of a copy.
MetadataFailureHandled(level) ==
    /\ BeforeCopy
       => \A i \in 1..Len(image_file_paths) :
             LET p == image_file_paths[i]
                 fallback == IF extract_datetime_from_file_name(p) # None
                             THEN extract_datetime_from_file_name(p) ELSE <<>>
             IN  (IsFilePath(fs, p) /\ ~ExifAt(fs, p).readable)
                 => /\ \E k \in 1..Len(log) :
                          log[k] = [level |-> level, event |-> "exif_failed", path |-> p]
                    /\ DictHas(image_rename_mapping, p)
                    /\ DictGet(image_rename_mapping, p, None) = NewFileName(p, fallback)
    /\ pc = "aborted" => HasRun("generate_new_file_names")
    /\ \A k \in 1..Len(log) :
          log[k].event = "exif_failed"
          => /\ log[k].level = level
             /\ DictHas(image_rename_mapping, log[k].path)
             /\ HasRun("copy_and_rename_images")
                => \E i \in 1..Len(copies) : copies[i].src = log[k].path

OutputStartedEmpty ==
    /\ \A p \in IterDir(fs, output_directory_path(config)) :
          \E i \in 1..Len(copies) : copies[i].dst = p
    /\ \A i \in 1..Len(copies) :
          copies[i].existed => \E j \in 1..(i - 1) : copies[j].dst = copies[i].dst

C10_OneOutputPerSource ==
    (HasRun("copy_and_rename_images") /\ OutputStartedEmpty)
    => /\ \A i \in 1..Len(copies) : ~copies[i].existed
       /\ Cardinality({p \in IterDir(fs, output_directory_path(config)) :
                          IsFilePath(fs, p)}) = Len(image_file_paths)
       /\ pc # "assertion_failed"

\* C11: a merge run writes only into the output directory, which is a
\* sibling of the root directory and distinct from it: no copy creates or
\* replaces a path beneath the root, whatever suffix the loader accepted.
C11_SourceTreeUnchanged ==
    \A i \in 1..Len(copies) :
        /\ Parent(copies[i].dst) = output_directory_path(config)
        /\ Parent(output_directory_path(config)) = Parent(root_directory)
        /\ output_directory_path(config) # root_directory
        /\ ~IsPrefix(root_directory, copies[i].dst)

====
